---- MODULE Spec2Model ----
(***************************************************************************)
(* Status synchronisation and access validation of the Task endpoints      *)
(* (app/api/v1/endpoints/task.py): get_task, get_tasks, create_task,       *)
(* update_task, delete_task over the Plan, Task and Comment stores.        *)
(* Spec, SpecAnyPlanStatus: each request runs to completion as one step.   *)
(* SpecStoreFailure: the same, against a Plan store that rejects writes.   *)
(* SpecConcurrent: create_task and update_task suspended at every await.   *)
(***************************************************************************)
EXTENDS Integers, FiniteSets

(* ----------------------------- bounds --------------------------------- *)

\* Number of Task primary keys the store hands out (ids are never reused).
MaxTasks == 2

\* Dates are the integers 1..MaxDate.
MaxDate == 3

\* Number of requests that may be in flight at once (SpecConcurrent).
MaxInflight == 2

(* ------------------------ values and fixtures ------------------------- *)

\* Python None for an optional date (falsy in `if task_create.expires_at`).
NoDate == 0

\* A TaskUpdate date that the request body did not set (exclude_unset).
UnsetDate == -1

\* A TaskUpdate status that the request body did not set (exclude_unset).
Unset == "UNSET"

\* Python None for User.supervisor_id (falsy in `and user.supervisor_id`).
NoUser == 0

\* The Clock: date.today(), fixed.
Today == 1

Dates == 1..MaxDate

TaskStatus == {"CREATED", "IN_PROGRESS", "DONE"}

PlanStatus == {"CREATED", "IN_PROGRESS", "DONE"}

\* The users the Identity Resolver can produce: id, role, supervisor_id.
\* 1 supervises 2 and 3; 2 is the subject of the Plan; 3 has a role that
\* permits mutation but is outside the supervisory chain of 2.
Users ==
    { [id |-> 1, role |-> "supervisor", supervisor_id |-> NoUser],
      [id |-> 2, role |-> "employee",   supervisor_id |-> 1],
      [id |-> 3, role |-> "supervisor", supervisor_id |-> 1] }

\* The stored Plan's primary key, and the keys a request may name.
PlanIds == {1}

PlanKeys == PlanIds \cup {2}

TaskKeys == 1..MaxTasks

\* The expiry dates the stored Plan may carry: none, or tomorrow.
PlanExpiries == {NoDate, Today + 1}

\* A Plan row as the Plan endpoints stored it; its subject is user 2.
PlanRow(status, expires_at) ==
    [user_id |-> 2, status |-> status, expires_at |-> expires_at]

\* The slots of the requests in flight, and the slot of no request.
Slots == 1..MaxInflight

Idle == [op |-> "idle"]

VARIABLES
    plans,      \* Plan store: id -> [user_id, status, expires_at]
    tasks,      \* Task store: id -> [plan_id, status, expires_at]
    comments,   \* Comment store: set of [task_id, author_id, type]
    next_id,    \* next Task primary key
    viewed,     \* history: <<user id, task id>> of every first-view transition made
    response,   \* the last request and how it ended: [op, status]
    inflight    \* the requests suspended at an await: slot -> request or Idle

vars == <<plans, tasks, comments, next_id, viewed, response, inflight>>

store == <<plans, tasks, comments, next_id>>

(* ----------------------------- validators ----------------------------- *)

SupervisorOf(uid) ==
    IF \E u \in Users : u.id = uid
    THEN (CHOOSE u \in Users : u.id = uid).supervisor_id
    ELSE NoUser

\* owner, owner's supervisor, that supervisor's supervisor, ...
RECURSIVE SupervisoryChain(_, _)
SupervisoryChain(uid, depth) ==
    IF uid = NoUser \/ depth = 0 THEN {}
    ELSE {uid} \cup SupervisoryChain(SupervisorOf(uid), depth - 1)

\* The user is the Plan's owning subject or in its supervisory chain.
HasAccess(user, plan) ==
    user.id \in SupervisoryChain(plan.user_id, Cardinality(Users))

\* validators.check_plan_and_user_access: "OK" when it passes.
check_plan_and_user_access(plan_id, user) ==
    IF plan_id \notin DOMAIN plans THEN "NotFound"
    ELSE IF ~HasAccess(user, plans[plan_id]) THEN "Forbidden"
    ELSE "OK"

\* validators.check_task_and_user_access: "OK" when it passes.
check_task_and_user_access(task_id, user) ==
    IF task_id \notin DOMAIN tasks THEN "NotFound"
    ELSE IF ~HasAccess(user, plans[tasks[task_id].plan_id]) THEN "Forbidden"
    ELSE "OK"

\* validators.check_role: the role permits mutation.
check_role(user) == user.role = "supervisor"

\* validators.check_plan_tasks_expired_date: the candidate is strictly after
\* the current date and does not exceed the Plan's expiry when it has one.
check_plan_tasks_expired_date(plan, expires_at) ==
    /\ expires_at > Today
    /\ plan.expires_at # NoDate => expires_at <= plan.expires_at

\* validators.check_new_date_gt_current: the candidate is strictly after the
\* Task's expiry. What it answers for a Task without expiry is not
\* specified: either answer (whenNone) is possible.
check_new_date_gt_current(task, expires_at, whenNone) ==
    IF task.expires_at = NoDate THEN whenNone ELSE expires_at > task.expires_at

\* The answers check_new_date_gt_current may give for Task task_id: both
\* when the Task has no expiry, otherwise the answer is determined.
WhenNoneAnswers(task_id) ==
    IF task_id \in DOMAIN tasks /\ tasks[task_id].expires_at = NoDate
    THEN BOOLEAN
    ELSE {TRUE}

(* ------------------------------- stores ------------------------------- *)

\* A Plan write that never reaches the store.
PlanUpdateLost(plan_id, status) == plans

\* A Plan write that stores CREATED whatever status it is given.
PlanUpdateResetsToCreated(plan_id, status) ==
    [plans EXCEPT ![plan_id].status = "CREATED"]

\* plan_crud.update(session, {"id": plan_id}, {"status": status}), awaited.
PlanUpdate(plan_id, status) == [plans EXCEPT ![plan_id].status = status]

\* A call of the coroutine function plan_crud.update without `await`: the
\* coroutine object is built and dropped, the store is never written.
NotAwaited(written) == plans

\* task_crud.get_all(session, {"plan_id": plan_id}): the rows of the Plan.
GetAll(ts, plan_id) == {t \in DOMAIN ts : ts[t].plan_id = plan_id}

\* A stored Task row as the Python object get_all returns for it.
TaskObject(t) == [kind |-> "Task", id |-> t]

\* The function object `lambda x: x.status != TaskStatus.DONE`.
NotDoneLambda == [kind |-> "function", id |-> 0]

\* list.count(value): the number of elements equal to value.
ListCount(rows, value) == Cardinality({r \in rows : r = value})

\* How a request ended.
Ended(op, status) == [op |-> op, status |-> status]

\* The stores and the response after a request that wrote nothing.
NothingWritten(op, status) ==
    [ plans |-> plans, tasks |-> tasks, comments |-> comments,
      next_id |-> next_id, response |-> Ended(op, status) ]

\* A request that runs to completion takes the stores and the response to
\* what its handler computed, and is not left in flight.
Commit(post) ==
    /\ plans' = post.plans
    /\ tasks' = post.tasks
    /\ comments' = post.comments
    /\ next_id' = post.next_id
    /\ response' = post.response
    /\ inflight' = inflight

(* ------------------------------ get_task ------------------------------ *)

\* FirstView without the test of the Task's status.
FirstViewAnyStatus(task, user) == user.supervisor_id # NoUser

\* FirstView without the test of the user's supervisor.
FirstViewAnyUser(task, user) == task.status = "CREATED"

\* line 38: the first-view condition.
FirstView(task, user) ==
    task.status = "CREATED" /\ user.supervisor_id # NoUser

get_task(user, task_id) ==
    LET outcome == check_task_and_user_access(task_id, user) IN
    IF outcome # "OK" THEN NothingWritten("get_task", outcome)
    ELSE IF FirstView(tasks[task_id], user)
    THEN [ tasks    |-> [tasks EXCEPT ![task_id].status = "IN_PROGRESS"],
           plans    |-> PlanUpdate(tasks[task_id].plan_id, "IN_PROGRESS"),
           comments |-> comments,
           next_id  |-> next_id,
           response |-> Ended("get_task", "OK") ]
    ELSE NothingWritten("get_task", "OK")

GetTask(user, task_id) ==
    /\ Commit(get_task(user, task_id))
    /\ viewed' = IF get_task(user, task_id).tasks # tasks
                 THEN viewed \cup {<<user.id, task_id>>}
                 ELSE viewed

(* ------------------------------ get_tasks ----------------------------- *)

get_tasks(user, plan_id) ==
    NothingWritten("get_tasks", check_plan_and_user_access(plan_id, user))

GetTasks(user, plan_id) ==
    /\ Commit(get_tasks(user, plan_id))
    /\ UNCHANGED viewed

(* ----------------------------- create_task ---------------------------- *)

\* CreateTaskValidation without the call of check_plan_tasks_expired_date.
CreateTaskValidationWithoutDate(user, plan_id, expires_at) ==
    IF check_plan_and_user_access(plan_id, user) # "OK"
    THEN check_plan_and_user_access(plan_id, user)
    ELSE IF ~check_role(user) THEN "Forbidden"
    ELSE "OK"

\* lines 81-88: the validators of create_task, in order; "OK" when all pass.
CreateTaskValidation(user, plan_id, expires_at) ==
    IF check_plan_and_user_access(plan_id, user) # "OK"
    THEN check_plan_and_user_access(plan_id, user)
    ELSE IF ~check_role(user) THEN "Forbidden"
    ELSE IF /\ expires_at # NoDate
            /\ ~check_plan_tasks_expired_date(plans[plan_id], expires_at)
    THEN "InvalidDate"
    ELSE "OK"

\* lines 104-108: the Plan store after the demotion step, `plan` being the
\* row the access validator fetched.
CreateTaskCascade(plan_id, plan) ==
    IF plan.status = "DONE"
    THEN NotAwaited(PlanUpdate(plan_id, "IN_PROGRESS"))
    ELSE plans

create_task(user, plan_id, expires_at) ==
    LET outcome == CreateTaskValidation(user, plan_id, expires_at) IN
    IF outcome # "OK" THEN NothingWritten("create_task", outcome)
    ELSE [ tasks    |-> [t \in DOMAIN tasks \cup {next_id} |->
                            IF t = next_id
                            THEN [plan_id |-> plan_id, status |-> "CREATED",
                                  expires_at |-> expires_at]
                            ELSE tasks[t]],
           next_id  |-> next_id + 1,
           comments |-> comments \cup
                          {[task_id |-> next_id, author_id |-> user.id,
                            type |-> "TEXT"]},
           plans    |-> CreateTaskCascade(plan_id, plans[plan_id]),
           response |-> Ended("create_task", "OK") ]

CreateTask(user, plan_id, expires_at) ==
    /\ next_id <= MaxTasks
    /\ Commit(create_task(user, plan_id, expires_at))
    /\ UNCHANGED viewed

(* ----------------------------- update_task ---------------------------- *)

\* The TaskUpdate bodies: each field set to a value, set to null, or not set.
Patches ==
    [ status     : TaskStatus \cup {Unset},
      expires_at : {UnsetDate, NoDate} \cup Dates ]

\* UpdateTaskValidation without the call of check_role.
UpdateTaskValidationWithoutRole(user, task_id, task_patch, whenNone) ==
    IF check_task_and_user_access(task_id, user) # "OK"
    THEN check_task_and_user_access(task_id, user)
    ELSE IF /\ task_patch.expires_at \notin {UnsetDate, NoDate}
            /\ ~check_new_date_gt_current(tasks[task_id], task_patch.expires_at,
                                          whenNone)
    THEN "InvalidDate"
    ELSE "OK"

\* lines 124-131: the validators of update_task, in order; "OK" when all pass.
UpdateTaskValidation(user, task_id, task_patch, whenNone) ==
    IF check_task_and_user_access(task_id, user) # "OK"
    THEN check_task_and_user_access(task_id, user)
    ELSE IF ~check_role(user) THEN "Forbidden"
    ELSE IF /\ task_patch.expires_at \notin {UnsetDate, NoDate}
            /\ ~check_new_date_gt_current(tasks[task_id], task_patch.expires_at,
                                          whenNone)
    THEN "InvalidDate"
    ELSE "OK"

\* ApplyPatch that writes the status only.
ApplyPatchStatusOnly(task, task_patch) ==
    [task EXCEPT
        !.status = IF task_patch.status = Unset THEN @ ELSE task_patch.status]

\* ApplyPatch that writes the expiry only.
ApplyPatchExpiryOnly(task, task_patch) ==
    [task EXCEPT
        !.expires_at = IF task_patch.expires_at = UnsetDate
                       THEN @ ELSE task_patch.expires_at]

\* task_patch.model_dump(exclude_unset=True) written over the row.
ApplyPatch(task, task_patch) ==
    [task EXCEPT
        !.status     = IF task_patch.status = Unset THEN @ ELSE task_patch.status,
        !.expires_at = IF task_patch.expires_at = UnsetDate
                       THEN @ ELSE task_patch.expires_at]

\* UpdateTaskCascade with the count taken of the rows that satisfy the
\* lambda, used as written (truthy when some Task is not DONE), and the
\* Plan write awaited.
UpdateTaskCascadeAnyNotDone(ts, plan_id, task_patch) ==
    IF task_patch.status = "DONE"
    THEN IF Cardinality({t \in GetAll(ts, plan_id) : ts[t].status # "DONE"}) # 0
         THEN PlanUpdate(plan_id, "DONE")
         ELSE plans
    ELSE plans

\* UpdateTaskCascade that also takes a DONE Plan back to IN_PROGRESS when the
\* patch sets a status other than DONE.
UpdateTaskCascadeDemoting(ts, plan_id, task_patch) ==
    IF task_patch.status \in {"CREATED", "IN_PROGRESS"}
       /\ plans[plan_id].status = "DONE"
    THEN PlanUpdate(plan_id, "IN_PROGRESS")
    ELSE plans

\* UpdateTaskCascade with the count taken of the rows that are not DONE, the
\* Plan written when it is zero, and the Plan write awaited.
UpdateTaskCascadeNoneNotDone(ts, plan_id, task_patch) ==
    IF task_patch.status = "DONE"
    THEN IF Cardinality({t \in GetAll(ts, plan_id) : ts[t].status # "DONE"}) = 0
         THEN PlanUpdate(plan_id, "DONE")
         ELSE plans
    ELSE plans

\* lines 138-147: the Plan store after the completion step, ts being the
\* Task store after the patch was written.
UpdateTaskCascade(ts, plan_id, task_patch) ==
    IF task_patch.status = "DONE"
    THEN LET tasks_not_done == {TaskObject(t) : t \in GetAll(ts, plan_id)} IN
         IF ListCount(tasks_not_done, NotDoneLambda) # 0
         THEN NotAwaited(PlanUpdate(plan_id, "DONE"))
         ELSE plans
    ELSE plans

update_task(user, task_id, task_patch, whenNone) ==
    LET outcome == UpdateTaskValidation(user, task_id, task_patch, whenNone) IN
    IF outcome # "OK" THEN NothingWritten("update_task", outcome)
    ELSE LET new_tasks == [tasks EXCEPT ![task_id] = ApplyPatch(@, task_patch)] IN
         [ tasks    |-> new_tasks,
           plans    |-> UpdateTaskCascade(new_tasks, tasks[task_id].plan_id,
                                          task_patch),
           comments |-> comments,
           next_id  |-> next_id,
           response |-> Ended("update_task", "OK") ]

UpdateTask(user, task_id, task_patch, whenNone) ==
    /\ whenNone \in WhenNoneAnswers(task_id)
    /\ Commit(update_task(user, task_id, task_patch, whenNone))
    /\ UNCHANGED viewed

(* ----------------------------- delete_task ---------------------------- *)

\* lines 162-163: the validators of delete_task, in order.
DeleteTaskValidation(user, task_id) ==
    IF check_task_and_user_access(task_id, user) # "OK"
    THEN check_task_and_user_access(task_id, user)
    ELSE IF ~check_role(user) THEN "Forbidden"
    ELSE "OK"

\* task_crud.delete(session, {"id": task_id}); the store drops the Task's
\* Comments with it.
TaskDelete(task_id) ==
    [ tasks    |-> [k \in DOMAIN tasks \ {task_id} |-> tasks[k]],
      comments |-> {c \in comments : c.task_id # task_id} ]

\* delete_task that marks the Plan DONE when the Tasks it leaves are all DONE.
delete_task_cascading(user, task_id) ==
    LET outcome == DeleteTaskValidation(user, task_id) IN
    IF outcome # "OK" THEN NothingWritten("delete_task", outcome)
    ELSE LET left == TaskDelete(task_id).tasks
             plan_id == tasks[task_id].plan_id
         IN  [ tasks    |-> left,
               comments |-> TaskDelete(task_id).comments,
               plans    |-> IF /\ GetAll(left, plan_id) # {}
                               /\ \A k \in GetAll(left, plan_id) :
                                     left[k].status = "DONE"
                            THEN PlanUpdate(plan_id, "DONE")
                            ELSE plans,
               next_id  |-> next_id,
               response |-> Ended("delete_task", "OK") ]

\* delete_task that deletes right after the access check, before check_role.
delete_task_before_role_check(user, task_id) ==
    IF check_task_and_user_access(task_id, user) # "OK"
    THEN NothingWritten("delete_task", check_task_and_user_access(task_id, user))
    ELSE [ tasks    |-> TaskDelete(task_id).tasks,
           comments |-> TaskDelete(task_id).comments,
           plans    |-> plans,
           next_id  |-> next_id,
           response |-> Ended("delete_task", DeleteTaskValidation(user, task_id)) ]

delete_task(user, task_id) ==
    LET outcome == DeleteTaskValidation(user, task_id) IN
    IF outcome # "OK" THEN NothingWritten("delete_task", outcome)
    ELSE [ tasks    |-> TaskDelete(task_id).tasks,
           comments |-> TaskDelete(task_id).comments,
           plans    |-> plans,
           next_id  |-> next_id,
           response |-> Ended("delete_task", "OK") ]

DeleteTask(user, task_id) ==
    /\ Commit(delete_task(user, task_id))
    /\ UNCHANGED viewed

(* --------------------------- specifications --------------------------- *)

NoTasks == [t \in {} |-> [plan_id |-> 0, status |-> "CREATED", expires_at |-> NoDate]]

\* The stores hold the Plans in the given statuses, and no Tasks.
InitWith(statuses) ==
    /\ plans \in {[p \in PlanIds |-> PlanRow(s, e)] : s \in statuses, e \in PlanExpiries}
    /\ tasks = NoTasks
    /\ comments = {}
    /\ next_id = 1
    /\ viewed = {}
    /\ response = Ended("none", "none")
    /\ inflight = [r \in Slots |-> Idle]

\* Plans freshly created (status CREATED).
Init == InitWith({"CREATED"})

\* Plans as the Plan endpoints may have left them, in any stored status.
InitAnyPlanStatus == InitWith(PlanStatus)

Next ==
    \/ \E user \in Users, task_id \in TaskKeys : GetTask(user, task_id)
    \/ \E user \in Users, plan_id \in PlanKeys : GetTasks(user, plan_id)
    \/ \E user \in Users, plan_id \in PlanKeys, expires_at \in {NoDate} \cup Dates :
          CreateTask(user, plan_id, expires_at)
    \/ \E user \in Users, task_id \in TaskKeys, task_patch \in Patches,
          whenNone \in BOOLEAN : UpdateTask(user, task_id, task_patch, whenNone)
    \/ \E user \in Users, task_id \in TaskKeys : DeleteTask(user, task_id)

Spec == Init /\ [][Next]_vars

SpecAnyPlanStatus == InitAnyPlanStatus /\ [][Next]_vars

(* ------------------- requests against a failing Plan store ------------ *)

\* plan_crud.update run while the Plan store rejects writes: the store's
\* error is raised in the caller.
PlanUpdateRaises(plan_id, status) == TRUE

\* A call of plan_crud.update without `await` while the Plan store rejects
\* writes: the coroutine is never run, the store is never asked and nothing
\* is raised in the caller.
NotAwaitedRaises(raised) == FALSE

\* lines 38-48: whether get_task's Plan write raises.
GetTaskCascadeRaises(task, user) ==
    IF FirstView(task, user)
    THEN PlanUpdateRaises(task.plan_id, "IN_PROGRESS")
    ELSE FALSE

\* lines 104-108: whether create_task's demotion step raises.
CreateTaskCascadeRaises(plan_id, plan) ==
    IF plan.status = "DONE"
    THEN NotAwaitedRaises(PlanUpdateRaises(plan_id, "IN_PROGRESS"))
    ELSE FALSE

\* lines 138-147: whether update_task's completion step raises.
UpdateTaskCascadeRaises(ts, plan_id, task_patch) ==
    IF task_patch.status = "DONE"
    THEN LET tasks_not_done == {TaskObject(t) : t \in GetAll(ts, plan_id)} IN
         IF ListCount(tasks_not_done, NotDoneLambda) # 0
         THEN NotAwaitedRaises(PlanUpdateRaises(plan_id, "DONE"))
         ELSE FALSE
    ELSE FALSE

\* A request whose Plan write raised: the writes committed before it stay,
\* the Plan store is as it was, and the request ends in StoreFailure.
PlanWriteRaised(post) ==
    [post EXCEPT !.plans = plans,
                 !.response = Ended(post.response.op, "StoreFailure")]

\* get_task while the Plan store rejects writes.
get_task_plan_store_down(user, task_id) ==
    LET post == get_task(user, task_id) IN
    IF post.response.status = "OK" /\ GetTaskCascadeRaises(tasks[task_id], user)
    THEN PlanWriteRaised(post)
    ELSE post

GetTaskPlanStoreDown(user, task_id) ==
    /\ Commit(get_task_plan_store_down(user, task_id))
    /\ viewed' = IF get_task_plan_store_down(user, task_id).tasks # tasks
                 THEN viewed \cup {<<user.id, task_id>>}
                 ELSE viewed

\* create_task while the Plan store rejects writes.
create_task_plan_store_down(user, plan_id, expires_at) ==
    LET post == create_task(user, plan_id, expires_at) IN
    IF post.response.status = "OK" /\ CreateTaskCascadeRaises(plan_id, plans[plan_id])
    THEN PlanWriteRaised(post)
    ELSE post

CreateTaskPlanStoreDown(user, plan_id, expires_at) ==
    /\ next_id <= MaxTasks
    /\ Commit(create_task_plan_store_down(user, plan_id, expires_at))
    /\ UNCHANGED viewed

\* update_task while the Plan store rejects writes.
update_task_plan_store_down(user, task_id, task_patch, whenNone) ==
    LET post == update_task(user, task_id, task_patch, whenNone) IN
    IF /\ post.response.status = "OK"
       /\ UpdateTaskCascadeRaises(post.tasks, tasks[task_id].plan_id, task_patch)
    THEN PlanWriteRaised(post)
    ELSE post

UpdateTaskPlanStoreDown(user, task_id, task_patch, whenNone) ==
    /\ whenNone \in WhenNoneAnswers(task_id)
    /\ Commit(update_task_plan_store_down(user, task_id, task_patch, whenNone))
    /\ UNCHANGED viewed

\* The requests of Next, made while the Plan store rejects writes (get_tasks
\* and delete_task write no Plan).
NextStoreFailure ==
    \/ \E user \in Users, task_id \in TaskKeys : GetTaskPlanStoreDown(user, task_id)
    \/ \E user \in Users, plan_id \in PlanKeys : GetTasks(user, plan_id)
    \/ \E user \in Users, plan_id \in PlanKeys, expires_at \in {NoDate} \cup Dates :
          CreateTaskPlanStoreDown(user, plan_id, expires_at)
    \/ \E user \in Users, task_id \in TaskKeys, task_patch \in Patches,
          whenNone \in BOOLEAN :
             UpdateTaskPlanStoreDown(user, task_id, task_patch, whenNone)
    \/ \E user \in Users, task_id \in TaskKeys : DeleteTask(user, task_id)

\* Plans in any stored status, and a Plan store that rejects every write.
SpecStoreFailure == InitAnyPlanStatus /\ [][NextStoreFailure]_vars

(* -------------------- requests run one await at a time ---------------- *)

\* The TaskUpdate bodies of the concurrent requests: a status, no date.
StatusPatches == {task_patch \in Patches : task_patch.expires_at = UnsetDate}

\* Request r is suspended before the step pc of handler op.
Suspended(r, op, pc) == inflight[r].op = op /\ inflight[r].pc = pc

\* Request x is an Update Task in flight that sets status DONE.
UpdatesToDone(x) ==
    inflight[x].op = "update_task" /\ inflight[x].task_patch.status = "DONE"

\* History kept in a request: request x as it is once another Update Task
\* has written Task task_id between x's write of it and x's re-fetch.
NoteOverwrite(x, task_id) ==
    IF Suspended(x, "update_task", "get_all") /\ inflight[x].task_id = task_id
    THEN [inflight[x] EXCEPT !.overwritten = TRUE]
    ELSE inflight[x]

\* The Update Tasks in flight that, with one setting Task task_id DONE, set
\* the last two Tasks of the Plan that are not DONE to DONE: they have not
\* written yet, and theirs and task_id are the Tasks of the Plan not DONE.
LastTwoWith(task_id) ==
    {x \in Slots :
        /\ UpdatesToDone(x)
        /\ inflight[x].pc = "update"
        /\ inflight[x].task_id # task_id
        /\ inflight[x].plan_id = tasks[task_id].plan_id
        /\ {t \in GetAll(tasks, tasks[task_id].plan_id) : tasks[t].status # "DONE"}
              = {task_id, inflight[x].task_id}}

\* lines 124-131: the validators of update_task. A refused request ends; an
\* accepted one is suspended before its write. History: overlapped, whether
\* the request was in flight together with the Update Task setting the other
\* of the last two Tasks not DONE to DONE (for a Create Task: with an Update
\* Task setting a Task DONE); created, the Tasks that Create Tasks in flight
\* with it have created.
UpdateTaskBegin(r, user, task_id, task_patch) ==
    /\ inflight[r].op = "idle"
    /\ LET outcome == UpdateTaskValidation(user, task_id, task_patch, TRUE)
           others  == IF task_id \in DOMAIN tasks THEN LastTwoWith(task_id) ELSE {}
       IN
       IF outcome # "OK"
       THEN /\ response' = Ended("update_task", outcome)
            /\ inflight' = inflight
       ELSE /\ response' = response
            /\ inflight' =
                 [x \in Slots |->
                    IF x = r
                    THEN [ op          |-> "update_task",
                           pc          |-> "update",
                           user        |-> user.id,
                           task_id     |-> task_id,
                           plan_id     |-> tasks[task_id].plan_id,
                           task_patch  |-> task_patch,
                           rows        |-> NoTasks,
                           overwritten |-> FALSE,
                           overlapped  |-> task_patch.status = "DONE" /\ others # {},
                           created     |-> {inflight[c].new_id : c \in
                                             {c \in Slots : /\ inflight[c].op = "create_task"
                                                            /\ inflight[c].new_id # 0}} ]
                    ELSE IF task_patch.status = "DONE"
                            /\ (x \in others \/ inflight[x].op = "create_task")
                    THEN [inflight[x] EXCEPT !.overlapped = TRUE]
                    ELSE inflight[x]]
    /\ UNCHANGED <<plans, tasks, comments, next_id, viewed>>

\* lines 132-137: the patch is written; line 148 when the patch does not set
\* status DONE.
UpdateTaskWrite(r) ==
    /\ Suspended(r, "update_task", "update")
    /\ tasks' = [tasks EXCEPT ![inflight[r].task_id] =
                    ApplyPatch(@, inflight[r].task_patch)]
    /\ IF inflight[r].task_patch.status = "DONE"
       THEN /\ inflight' = [x \in Slots |->
                              IF x = r THEN [inflight[r] EXCEPT !.pc = "get_all"]
                              ELSE NoteOverwrite(x, inflight[r].task_id)]
            /\ response' = response
       ELSE /\ inflight' = [x \in Slots |->
                              IF x = r THEN Idle
                              ELSE NoteOverwrite(x, inflight[r].task_id)]
            /\ response' = Ended("update_task", "OK")
    /\ UNCHANGED <<plans, comments, next_id, viewed>>

\* lines 140-143: the rows of the Plan are fetched.
UpdateTaskGetAll(r) ==
    /\ Suspended(r, "update_task", "get_all")
    /\ inflight' = [inflight EXCEPT
                      ![r].pc = "plan_update",
                      ![r].rows = [t \in GetAll(tasks, inflight[r].plan_id) |-> tasks[t]]]
    /\ UNCHANGED <<plans, tasks, comments, next_id, viewed, response>>

\* lines 144-148: the completion step, decided on the rows fetched.
UpdateTaskPlanUpdate(r) ==
    /\ Suspended(r, "update_task", "plan_update")
    /\ plans' = UpdateTaskCascade(inflight[r].rows, inflight[r].plan_id,
                                  inflight[r].task_patch)
    /\ response' = Ended("update_task", "OK")
    /\ inflight' = [inflight EXCEPT ![r] = Idle]
    /\ UNCHANGED <<tasks, comments, next_id, viewed>>

\* The Create Tasks in flight that have not yet taken their primary key.
CreatesPending == {x \in Slots : inflight[x].op = "create_task" /\ inflight[x].new_id = 0}

\* lines 81-88: the validators of create_task (no expiry sent); `plan` is the
\* row the access validator fetched.
CreateTaskBegin(r, user, plan_id) ==
    /\ inflight[r].op = "idle"
    /\ next_id + Cardinality(CreatesPending) <= MaxTasks
    /\ LET outcome == CreateTaskValidation(user, plan_id, NoDate) IN
       IF outcome # "OK"
       THEN /\ response' = Ended("create_task", outcome)
            /\ inflight' = inflight
       ELSE /\ response' = response
            /\ inflight' = [inflight EXCEPT ![r] =
                              [ op         |-> "create_task",
                                pc         |-> "create",
                                user       |-> user.id,
                                plan_id    |-> plan_id,
                                plan       |-> plans[plan_id],
                                new_id     |-> 0,
                                overlapped |-> \E x \in Slots : UpdatesToDone(x) ]]
    /\ UNCHANGED <<plans, tasks, comments, next_id, viewed>>

\* lines 89-94: the Task is created.
CreateTaskCreate(r) ==
    /\ Suspended(r, "create_task", "create")
    /\ tasks' = [t \in DOMAIN tasks \cup {next_id} |->
                    IF t = next_id
                    THEN [plan_id |-> inflight[r].plan_id, status |-> "CREATED",
                          expires_at |-> NoDate]
                    ELSE tasks[t]]
    /\ next_id' = next_id + 1
    /\ inflight' = [x \in Slots |->
                      IF x = r
                      THEN [inflight[r] EXCEPT !.pc = "comment", !.new_id = next_id]
                      ELSE IF inflight[x].op = "update_task"
                      THEN [inflight[x] EXCEPT !.created = @ \cup {next_id}]
                      ELSE inflight[x]]
    /\ UNCHANGED <<plans, comments, viewed, response>>

\* lines 96-103: the Comment is created.
CreateTaskComment(r) ==
    /\ Suspended(r, "create_task", "comment")
    /\ comments' = comments \cup
                     {[task_id |-> inflight[r].new_id, author_id |-> inflight[r].user,
                       type |-> "TEXT"]}
    /\ inflight' = [inflight EXCEPT ![r].pc = "plan_update"]
    /\ UNCHANGED <<plans, tasks, next_id, viewed, response>>

\* lines 105-109: the demotion step, decided on the row fetched on line 81.
CreateTaskPlanUpdate(r) ==
    /\ Suspended(r, "create_task", "plan_update")
    /\ plans' = CreateTaskCascade(inflight[r].plan_id, inflight[r].plan)
    /\ response' = Ended("create_task", "OK")
    /\ inflight' = [inflight EXCEPT ![r] = Idle]
    /\ UNCHANGED <<tasks, comments, next_id, viewed>>

\* Create Task and Update Task requests, each suspended at every await, their
\* store operations interleaved in any order.
NextConcurrent ==
    \E r \in Slots :
        \/ \E user \in Users, task_id \in TaskKeys, task_patch \in StatusPatches :
              UpdateTaskBegin(r, user, task_id, task_patch)
        \/ UpdateTaskWrite(r)
        \/ UpdateTaskGetAll(r)
        \/ UpdateTaskPlanUpdate(r)
        \/ \E user \in Users, plan_id \in PlanKeys : CreateTaskBegin(r, user, plan_id)
        \/ CreateTaskCreate(r)
        \/ CreateTaskComment(r)
        \/ CreateTaskPlanUpdate(r)

SpecConcurrent == Init /\ [][NextConcurrent]_vars

(* ------------------------------- claims ------------------------------- *)

AllDone(ts, plan_id) == \A t \in GetAll(ts, plan_id) : ts[t].status = "DONE"

FirstViewed(task_id) == \E user \in Users : <<user.id, task_id>> \in viewed

Supervised(user) == user.supervisor_id # NoUser

\* C1: no Plan has status DONE while one of its Tasks has a status other
\* than DONE (Plans start CREATED with no Tasks).
C1_DonePlanHasOnlyDoneTasks ==
    \A p \in DOMAIN plans : plans[p].status = "DONE" => AllDone(tasks, p)

\* An Update Task to DONE has completed under a Plan that still has a Task
\* that is not DONE, and the Plan is not DONE.
C1_Witness ==
    /\ response = Ended("update_task", "OK")
    /\ \E p \in DOMAIN plans :
          /\ \E t \in GetAll(tasks, p) : tasks[t].status = "DONE"
          /\ ~AllDone(tasks, p)
          /\ plans[p].status # "DONE"

C3_UpdateToDoneCompletesPlan ==
    [][\A user \in Users, t \in TaskKeys, patch \in Patches, whenNone \in BOOLEAN :
          ( /\ UpdateTask(user, t, patch, whenNone)
            /\ response'.status = "OK"
            /\ patch.status = "DONE"
            /\ AllDone(tasks', tasks[t].plan_id) )
          => plans'[tasks[t].plan_id].status = "DONE"]_vars

\* C4: a Create Task that passes the validators under a Plan whose status is
\* DONE leaves the Plan IN_PROGRESS.
C4_CreateUnderDonePlanDemotes ==
    [][\A user \in Users, p \in PlanKeys, e \in {NoDate} \cup Dates :
          ( /\ CreateTask(user, p, e)
            /\ response'.status = "OK"
            /\ plans[p].status = "DONE" )
          => plans'[p].status = "IN_PROGRESS"]_vars

\* After Get Task on a CREATED Task under a CREATED Plan, the Task and the
\* Plan are IN_PROGRESS.
FirstViewMovesTaskAndPlan(t) ==
    (tasks[t].status = "CREATED" /\ plans[tasks[t].plan_id].status = "CREATED")
        => /\ tasks'[t].status = "IN_PROGRESS"
           /\ plans'[tasks[t].plan_id].status = "IN_PROGRESS"

StatusesUnchanged(t) ==
    /\ tasks'[t].status = tasks[t].status
    /\ plans'[tasks[t].plan_id].status = plans[tasks[t].plan_id].status

\* C5 as stated: a supervised user's Get Task on a CREATED Task under a
\* CREATED Plan leaves both IN_PROGRESS, and any later Get Task of that user
\* on that Task changes neither status.
C5_FirstViewThenAnyLaterReadIsNoOp ==
    [][\A user \in Users, t \in TaskKeys :
          ( /\ GetTask(user, t)
            /\ response'.status = "OK"
            /\ Supervised(user) )
          => /\ FirstViewMovesTaskAndPlan(t)
             /\ <<user.id, t>> \in viewed => StatusesUnchanged(t)]_vars

\* C5 as amended: the same, for any later Get Task made while the Task is
\* not in status CREATED (Update Task may have set it back to CREATED).
C5_FirstViewThenLaterReadOfStartedTaskIsNoOp ==
    [][\A user \in Users, t \in TaskKeys :
          ( /\ GetTask(user, t)
            /\ response'.status = "OK"
            /\ Supervised(user) )
          => /\ FirstViewMovesTaskAndPlan(t)
             /\ (<<user.id, t>> \in viewed /\ tasks[t].status # "CREATED")
                   => StatusesUnchanged(t)]_vars

\* A Get Task has just ended with a first-viewed Task and its Plan both
\* IN_PROGRESS.
C5_Witness ==
    /\ response = Ended("get_task", "OK")
    /\ \E t \in DOMAIN tasks :
          /\ FirstViewed(t)
          /\ tasks[t].status = "IN_PROGRESS"
          /\ plans[tasks[t].plan_id].status = "IN_PROGRESS"

\* C6: in every reachable state, a Get Task by a user without supervisor,
\* whatever the Task, leaves every Task and every Plan as it was.
C6_UnsupervisedReadChangesNothing ==
    \A user \in Users, t \in TaskKeys :
        ~Supervised(user)
            => /\ get_task(user, t).tasks = tasks
               /\ get_task(user, t).plans = plans

\* A Get Task has succeeded while every Task is CREATED: a supervised reader
\* would have moved the Task it read, so the reader had no supervisor.
C6_Witness ==
    /\ response = Ended("get_task", "OK")
    /\ DOMAIN tasks # {}
    /\ \A t \in DOMAIN tasks : tasks[t].status = "CREATED"

\* C7: in every reachable state, a Delete Task, whoever sends it and
\* whatever the Task, leaves every Plan as it was.
C7_DeleteNeverChangesPlans ==
    \A user \in Users, t \in TaskKeys : delete_task(user, t).plans = plans

\* A Delete Task has left a Plan with Tasks that are all DONE, and the Plan
\* is not DONE.
C7_Witness ==
    /\ response = Ended("delete_task", "OK")
    /\ \E p \in DOMAIN plans :
          /\ GetAll(tasks, p) # {}
          /\ AllDone(tasks, p)
          /\ plans[p].status # "DONE"

Failures == {"NotFound", "Forbidden", "InvalidDate"}

\* The request ended in a failure and wrote nothing.
FailedWithoutWrite(post) ==
    /\ post.response.status \in Failures
    /\ <<post.plans, post.tasks, post.comments, post.next_id>> = store

\* C8: a request one of whose validators (access, role, expiry date) fails
\* ends with a failure and leaves the Task, Plan and Comment stores as they
\* were; this in every reachable state, for every request.
C8_ValidationFailureWritesNothing ==
    \A user \in Users :
        /\ \A t \in TaskKeys :
              /\ check_task_and_user_access(t, user) # "OK"
                    => FailedWithoutWrite(get_task(user, t))
              /\ (check_task_and_user_access(t, user) # "OK" \/ ~check_role(user))
                    => /\ FailedWithoutWrite(delete_task(user, t))
                       /\ \A patch \in Patches, whenNone \in BOOLEAN :
                             FailedWithoutWrite(update_task(user, t, patch, whenNone))
              /\ \A patch \in Patches, whenNone \in WhenNoneAnswers(t) :
                    ( /\ t \in DOMAIN tasks
                      /\ patch.expires_at \in Dates
                      /\ ~check_new_date_gt_current(tasks[t], patch.expires_at,
                                                    whenNone) )
                    => FailedWithoutWrite(update_task(user, t, patch, whenNone))
        /\ \A p \in PlanKeys :
              /\ check_plan_and_user_access(p, user) # "OK"
                    => FailedWithoutWrite(get_tasks(user, p))
              /\ \A e \in {NoDate} \cup Dates :
                    ( \/ check_plan_and_user_access(p, user) # "OK"
                      \/ ~check_role(user)
                      \/ (e # NoDate /\ ~check_plan_tasks_expired_date(plans[p], e)) )
                    => FailedWithoutWrite(create_task(user, p, e))

\* An Update Task has been refused for its date while Tasks are stored.
C8_Witness ==
    /\ response = Ended("update_task", "InvalidDate")
    /\ DOMAIN tasks # {}

\* C9: a Plan that has a Task and whose Tasks are all DONE has status DONE.
C9_PlanOfDoneTasksIsDone ==
    \A p \in DOMAIN plans :
        (GetAll(tasks, p) # {} /\ AllDone(tasks, p)) => plans[p].status = "DONE"

\* C10: a Task's expiry does not exceed its Plan's expiry when both are set.
C10_TaskExpiryWithinPlanExpiry ==
    \A t \in DOMAIN tasks :
        (tasks[t].expires_at # NoDate /\ plans[tasks[t].plan_id].expires_at # NoDate)
            => tasks[t].expires_at <= plans[tasks[t].plan_id].expires_at

\* The post-state left the Task, Plan and Comment stores as they were.
StoresUnchanged(post) ==
    <<post.plans, post.tasks, post.comments, post.next_id>> = store

\* C11: in every reachable state, for every user whose role does not permit
\* mutation: Create Task, Update Task and Delete Task never succeed and
\* change no stored state, and end with Forbidden whenever the user has
\* access to the Plan or Task named (also when the date sent is invalid);
\* Get Task and List Tasks by that user, with access, succeed.
C11_RoleGatesMutationNotRead ==
    \A user \in Users :
        ~check_role(user) =>
            /\ \A t \in TaskKeys :
                  /\ StoresUnchanged(delete_task(user, t))
                  /\ check_task_and_user_access(t, user) = "OK"
                        => /\ delete_task(user, t).response.status = "Forbidden"
                           /\ get_task(user, t).response.status = "OK"
                  /\ \A patch \in Patches, whenNone \in BOOLEAN :
                        /\ StoresUnchanged(update_task(user, t, patch, whenNone))
                        /\ check_task_and_user_access(t, user) = "OK"
                              => update_task(user, t, patch, whenNone).response.status
                                    = "Forbidden"
            /\ \A p \in PlanKeys :
                  /\ check_plan_and_user_access(p, user) = "OK"
                        => get_tasks(user, p).response.status = "OK"
                  /\ \A e \in {NoDate} \cup Dates :
                        /\ StoresUnchanged(create_task(user, p, e))
                        /\ check_plan_and_user_access(p, user) = "OK"
                              => create_task(user, p, e).response.status = "Forbidden"

\* A Delete Task has been refused while a Task is stored that a user without
\* the role has read (the read was a first view) and may not delete.
C11_Witness ==
    /\ response = Ended("delete_task", "Forbidden")
    /\ \E user \in Users, t \in DOMAIN tasks :
          /\ ~check_role(user)
          /\ <<user.id, t>> \in viewed
          /\ delete_task(user, t).response.status = "Forbidden"

\* The user passes the access validator for the Plan and the role validator.
MayMutatePlan(user, plan_id) ==
    check_plan_and_user_access(plan_id, user) = "OK" /\ check_role(user)

\* The user passes the access validator for the Task and the role validator.
MayMutateTask(user, task_id) ==
    check_task_and_user_access(task_id, user) = "OK" /\ check_role(user)

\* C12: in every reachable state, a Create Task by a user with access and
\* role fails InvalidDate when its expiry is not strictly after the current
\* date, and when its expiry exceeds the expiry of a Plan that has one; a
\* Create Task without expiry, whoever sends it, does not fail InvalidDate.
C12_CreateExpiryValidated ==
    \A user \in Users, p \in PlanKeys :
        /\ create_task(user, p, NoDate).response.status # "InvalidDate"
        /\ MayMutatePlan(user, p) =>
              \A e \in Dates :
                  /\ e <= Today
                        => create_task(user, p, e).response.status = "InvalidDate"
                  /\ (plans[p].expires_at # NoDate /\ e > plans[p].expires_at)
                        => create_task(user, p, e).response.status = "InvalidDate"

\* A Create Task has been refused for its date under a Plan without expiry
\* (the date was not after the current date) while a Task is stored.
C12_Witness ==
    /\ response = Ended("create_task", "InvalidDate")
    /\ \A p \in DOMAIN plans : plans[p].expires_at = NoDate
    /\ DOMAIN tasks # {}

\* C13: in every reachable state, an Update Task by a user with access and
\* role that sets the expiry of a Task that has one to a date not after it
\* fails InvalidDate and leaves the Task as it was; one that sets it to a
\* strictly later date succeeds and the stored Task carries the new expiry.
C13_UpdateExpiryOnlyForward ==
    \A user \in Users, t \in DOMAIN tasks :
        (MayMutateTask(user, t) /\ tasks[t].expires_at # NoDate) =>
            \A patch \in Patches, whenNone \in BOOLEAN :
                patch.expires_at \in Dates =>
                    LET post == update_task(user, t, patch, whenNone) IN
                    IF patch.expires_at <= tasks[t].expires_at
                    THEN /\ post.response.status = "InvalidDate"
                         /\ post.tasks[t] = tasks[t]
                    ELSE /\ post.response.status = "OK"
                         /\ post.tasks[t].expires_at = patch.expires_at

\* An Update Task has been refused for its date while every stored Task has
\* an expiry: the date sent was not after the Task's expiry.
C13_Witness ==
    /\ response = Ended("update_task", "InvalidDate")
    /\ DOMAIN tasks # {}
    /\ \A t \in DOMAIN tasks : tasks[t].expires_at # NoDate

\* C14: a request made while the Plan store rejects writes, and whose
\* cascade write to the Plan is due (the first-view transition of Get Task,
\* the demotion of Create Task under a DONE Plan, the completion of Update
\* Task that leaves every Task DONE), ends in StoreFailure, with the Task
\* written earlier in the request committed.
C14_CascadeStoreFailureSurfaced ==
    [][/\ \A user \in Users, t \in TaskKeys :
             ( /\ GetTaskPlanStoreDown(user, t)
               /\ check_task_and_user_access(t, user) = "OK"
               /\ FirstView(tasks[t], user) )
             => /\ response'.status = "StoreFailure"
                /\ tasks'[t].status = "IN_PROGRESS"
       /\ \A user \in Users, p \in PlanKeys, e \in {NoDate} \cup Dates :
             ( /\ CreateTaskPlanStoreDown(user, p, e)
               /\ CreateTaskValidation(user, p, e) = "OK"
               /\ plans[p].status = "DONE" )
             => /\ response'.status = "StoreFailure"
                /\ next_id \in DOMAIN tasks'
       /\ \A user \in Users, t \in TaskKeys, patch \in Patches,
             whenNone \in BOOLEAN :
             ( /\ UpdateTaskPlanStoreDown(user, t, patch, whenNone)
               /\ UpdateTaskValidation(user, t, patch, whenNone) = "OK"
               /\ patch.status = "DONE"
               /\ AllDone(tasks', tasks[t].plan_id) )
             => /\ response'.status = "StoreFailure"
                /\ tasks'[t].status = "DONE"]_vars

NoneInFlight == \A x \in Slots : inflight[x].op = "idle"

\* C15: when the later of two Update Tasks that ran concurrently, each
\* setting another Task of the Plan DONE, completes with every Task of the
\* Plan DONE and no request left in flight, the Plan is DONE.
C15_ConcurrentCompletionsLeavePlanDone ==
    [][\A r \in Slots :
          ( /\ UpdateTaskPlanUpdate(r)
            /\ inflight[r].overlapped
            /\ NoneInFlight'
            /\ AllDone(tasks', inflight[r].plan_id) )
          => plans'[inflight[r].plan_id].status = "DONE"]_vars

\* C16: in every reachable state, an Update Task that passes the validators
\* and sets a Task's status to DONE while another Task of the same Plan has
\* a status other than DONE leaves the Plan's status as it was (not DONE).
C16_UpdateToDoneAmongUnfinishedKeepsPlan ==
    \A user \in Users, t \in DOMAIN tasks :
        \A patch \in Patches, whenNone \in WhenNoneAnswers(t) :
            LET post == update_task(user, t, patch, whenNone)
                p    == tasks[t].plan_id
            IN  ( /\ post.response.status = "OK"
                  /\ patch.status = "DONE"
                  /\ \E other \in GetAll(post.tasks, p) \ {t} :
                        post.tasks[other].status # "DONE" )
                => /\ post.plans[p].status = plans[p].status
                   /\ post.plans[p].status # "DONE"

\* An Update Task has ended with the two Tasks of a Plan in statuses DONE and
\* CREATED, and the Plan still CREATED.
C16_Witness ==
    /\ response = Ended("update_task", "OK")
    /\ \E p \in DOMAIN plans :
          /\ Cardinality(GetAll(tasks, p)) = 2
          /\ {tasks[t].status : t \in GetAll(tasks, p)} = {"DONE", "CREATED"}
          /\ plans[p].status = "CREATED"

CreatedInRace(r) ==
    IF inflight[r].op = "create_task"
    THEN IF inflight[r].overlapped THEN {inflight[r].new_id} ELSE {}
    ELSE IF inflight[r].task_patch.status = "DONE" THEN inflight[r].created ELSE {}

C19_UpdateWithoutDoneKeepsPlan ==
    \A user \in Users, t \in TaskKeys :
        \A patch \in Patches, whenNone \in BOOLEAN :
            patch.status # "DONE"
                => update_task(user, t, patch, whenNone).plans = plans

\* An Update Task has ended under a DONE Plan that has a Task IN_PROGRESS:
\* no Get Task moved that Task (it would have moved the Plan too), an Update
\* Task with status IN_PROGRESS did.
C19_Witness ==
    /\ response = Ended("update_task", "OK")
    /\ \E t \in DOMAIN tasks :
          /\ tasks[t].status = "IN_PROGRESS"
          /\ plans[tasks[t].plan_id].status = "DONE"

\* C20: no request takes a Plan whose status is not CREATED back to CREATED,
\* and a request that changes a Plan's status leaves it IN_PROGRESS or DONE.
C20_PlanNeverBackToCreated ==
    [][\A p \in DOMAIN plans :
          /\ plans[p].status # "CREATED" => plans'[p].status # "CREATED"
          /\ plans'[p].status # plans[p].status
                => plans'[p].status \in {"IN_PROGRESS", "DONE"}]_vars

\* A Plan that a first view moved is IN_PROGRESS after its Tasks were all
\* deleted.
C20_Witness ==
    /\ response = Ended("delete_task", "OK")
    /\ viewed # {}
    /\ DOMAIN tasks = {}
    /\ \E p \in DOMAIN plans : plans[p].status = "IN_PROGRESS"

====
